---- MODULE Spec2Model ----
(***************************************************************************)
(* A model of ipydatagrid's Python-side DataGrid (ipydatagrid/datagrid.py):*)
(* the selection list and its traversal (SelectionHelper and               *)
(* SelectionIterator), and the data object with its cell setters and the   *)
(* cell-changed notifications.                                             *)
(*                                                                         *)
(* Conventions.  Python's None is the empty sequence <<>> and a present    *)
(* value v is <<v>> wherever the code lets a value be None.  Row and       *)
(* column ordinals are 0-based as in the code; TLA+ sequences are 1-based, *)
(* so ordinal i of a Python list is element i + 1 of the sequence.         *)
(* Cell values and index labels are integers.  Results of calls are the    *)
(* strings "True", "False", "None" and "ValueError" (a raised ValueError). *)
(***************************************************************************)
EXTENDS Integers, Sequences, FiniteSets, TLC

VARIABLES
    _data,                  \* DataGrid._data: [schema, data]
    selections,             \* DataGrid.selections: list of rectangles
    selection_mode,         \* DataGrid.selection_mode
    _cell_change_handlers,  \* DataGrid._cell_change_handlers: callbacks, in order
    _index_name,            \* DataGrid._index_name: None or a name
    _dataframe_reference,   \* __dataframe_reference_index_names and _columns
    call,                   \* the last call made on the grid, with its result
    events,                 \* what the last call wrote and sent, in order
    ncalls,                 \* the number of cell-setter calls made so far
    _transforms,            \* DataGrid._transforms: the stored transform list
    _visible_rows,          \* DataGrid._visible_rows: the rows the view shows
    iterators               \* the SelectionIterator objects the caller holds

vars == <<_data, selections, selection_mode, _cell_change_handlers,
          _index_name, _dataframe_reference, call, events, ncalls, _transforms,
          _visible_rows, iterators>>

-----------------------------------------------------------------------------
(* Bounds of the model.                                                    *)

\* The longest selection list the model lets select(...) build.
MaxSel == 2

\* The longest list a single assignment to the selections trait carries.
MaxAssign == 1

\* The number of cell-setter calls in one behaviour of the data specification.
MaxWrites == 2

\* Row and column arguments of select(...) and of assigned rectangles.
Coords == 0 .. 1

\* The names the caller binds traversals to; each holds None or an iterator.
Iterators == {1, 2}

\* Optional arguments (row2, column2): None or a coordinate.
OptCoords == {<<>>} \cup {<<x>> : x \in Coords}

ClearModes == {"all", "current", "none"}

SelectionModes == {"row", "column", "cell", "none"}

-----------------------------------------------------------------------------
(* Helpers on sequences.                                                   *)

Min(a, b) == IF a <= b THEN a ELSE b

Max(a, b) == IF a >= b THEN a ELSE b

Range(s) == {s[i] : i \in DOMAIN s}

\* Sequences over S of length 0 .. n.
SeqsUpTo(S, n) == UNION {[1 .. k -> S] : k \in 0 .. n}

\* The position (1-based) of the first occurrence of x in s, 0 when absent.
IndexOf(s, x) ==
    IF x \in Range(s) THEN CHOOSE i \in DOMAIN s : s[i] = x /\ \A j \in 1 .. i - 1 : s[j] # x
    ELSE 0

-----------------------------------------------------------------------------
(* Datasets.  A dataframe is [index_name, index, columns, values]: the     *)
(* name of its (single-level) index or None, the index labels, the column  *)
(* labels and the values row by row.                                       *)

\* The dataframe of the tests' fixture, with integer index labels.
ExampleFrame ==
    [index_name |-> <<>>, index |-> <<10, 20, 30>>, columns |-> <<"A", "B">>,
     values |-> <<(<<1, 4>>), (<<2, 5>>), (<<3, 6>>)>>]

\* The same columns with a primary key that is not unique.
DupKeyFrame ==
    [index_name |-> <<>>, index |-> <<10, 20, 20>>, columns |-> <<"A", "B">>,
     values |-> <<(<<1, 4>>), (<<2, 5>>), (<<3, 6>>)>>]

\* All rows dropped (test_data_getter, drop_rows).
NoRowsFrame ==
    [index_name |-> <<"key">>, index |-> <<>>, columns |-> <<"A", "B">>,
     values |-> <<>>]

\* A single column called like the default index name, "key".
KeyColumnFrame ==
    [index_name |-> <<>>, index |-> <<10>>, columns |-> <<"key">>,
     values |-> <<(<<1>>)>>]

\* The dataframes the selection specification loads.
Frames == {ExampleFrame, NoRowsFrame, KeyColumnFrame}

\* The dataframes the data specification starts from.
DataFrames == {ExampleFrame, DupKeyFrame}

\* f"{index_name}_{index}"
Suffixed(index_name, index) == index_name \o "_" \o ToString(index)

\* generate_data_object's while loop: the first index >= `index` whose
\* suffixed name is not a column.
RECURSIVE new_index_name(_, _, _)
new_index_name(index_name, columns, index) ==
    IF Suffixed(index_name, index) \in Range(columns)
    THEN new_index_name(index_name, columns, index + 1)
    ELSE Suffixed(index_name, index)

\* DataGrid.generate_data_object for a single-level index and flat columns:
\* the guid column is set to the row ordinals, the index axis is renamed,
\* the table schema is built and the index is reset into a column.  The
\* "fields" entry of the result (one {name: None} per field) is left out.
generate_data_object(dataframe, guid_key, index_name) ==
    LET columns == IF guid_key \in Range(dataframe.columns)
                   THEN dataframe.columns
                   ELSE Append(dataframe.columns, guid_key)
        axis == IF index_name \in Range(columns)
                THEN new_index_name(index_name, columns, 0)
                ELSE index_name
        fields == <<axis>> \o columns
        row(i) == [f \in Range(fields) |->
                     IF f = guid_key THEN i - 1
                     ELSE IF f = axis THEN dataframe.index[i]
                     ELSE dataframe.values[i][IndexOf(dataframe.columns, f)]]
    IN  [data |-> [columns |-> fields,
                   rows |-> [i \in DOMAIN dataframe.index |-> row(i)]],
         schema |-> [fields |-> fields,
                     primaryKey |-> <<axis, guid_key>>,
                     primaryKeyUuid |-> guid_key]]

\* get_dataframe_index with the dataframe's index name ahead of the
\* index_name given at construction.
get_dataframe_index_frame_first(index_name, dataframe) ==
    IF dataframe.index_name # <<>> THEN dataframe.index_name[1]
    ELSE IF index_name # <<>> THEN index_name[1]
    ELSE "key"

\* DataGrid.get_dataframe_index: the index_name given at construction, else
\* the dataframe's index name, else "key".
get_dataframe_index(index_name, dataframe) ==
    IF index_name # <<>> THEN index_name[1]
    ELSE IF dataframe.index_name # <<>> THEN dataframe.index_name[1]
    ELSE "key"

\* DataGrid._validate_data: no two schema fields have the same name.
_validate_data(proposal) ==
    Len(proposal.schema.fields) = Cardinality(Range(proposal.schema.fields))

\* DataGrid._get_col_headers: the schema fields that are not primary keys.
_get_col_headers(data) ==
    SelectSeq(data.schema.fields, LAMBDA f : f \notin Range(data.schema.primaryKey))

\* DataGrid._column_name_to_index: None when the name is no data column.
_column_name_to_index(data, column_name) ==
    LET col_headers == _get_col_headers(data)
    IN  IF column_name \in Range(col_headers)
        THEN <<IndexOf(col_headers, column_name) - 1>>
        ELSE <<>>

-----------------------------------------------------------------------------
(* SelectionIterator.  An iterator is [_rect_index, _cell_index,           *)
(* _selections]; a rectangle is [r1, c1, r2, c2] and a cell is [r, c].     *)

\* SelectionIterator.__init__
SelectionIterator(sels) ==
    [_rect_index |-> 0, _cell_index |-> 0, _selections |-> sels]

\* _index_to_row_col with the quotient and the remainder exchanged.
_index_to_row_col_swapped(rect, index) ==
    LET num_rows == rect.r2 - rect.r1 + 1
        num_cols == rect.c2 - rect.c1 + 1
    IN  IF index > num_rows * num_cols - 1 THEN <<>>
        ELSE <<[r |-> rect.r1 + (index % num_rows),
                c |-> rect.c1 + (index \div num_rows)]>>

\* SelectionIterator._index_to_row_col: None past the rectangle's last cell.
\* floor(index / num_cols) is index \div num_cols; num_cols is positive
\* whenever the division is reached.
_index_to_row_col(rect, index) ==
    LET num_rows == rect.r2 - rect.r1 + 1
        num_cols == rect.c2 - rect.c1 + 1
    IN  IF index > num_rows * num_cols - 1 THEN <<>>
        ELSE <<[r |-> rect.r1 + (index \div num_cols),
                c |-> rect.c1 + (index % num_cols)]>>

\* SelectionIterator._cell_in_rect
_cell_in_rect(cell, rect) ==
    /\ rect.r1 <= cell.r /\ cell.r <= rect.r2
    /\ rect.c1 <= cell.c /\ cell.c <= rect.c2

\* _cell_in_previous_selected_rects with the range one rectangle short.
_cell_in_previous_selected_rects_short(it, cell) ==
    \E i \in 1 .. it._rect_index - 1 : _cell_in_rect(cell, it._selections[i])

\* SelectionIterator._cell_in_previous_selected_rects: the rectangles at
\* ordinals 0 .. _rect_index - 1.
_cell_in_previous_selected_rects(it, cell) ==
    \E i \in 1 .. it._rect_index : _cell_in_rect(cell, it._selections[i])

\* __next__ starting over from the first rectangle when it raises
\* StopIteration.
RECURSIVE __next___rewind(_)
__next___rewind(it) ==
    IF it._rect_index >= Len(it._selections)
    THEN [it |-> [it EXCEPT !._rect_index = 0, !._cell_index = 0], value |-> <<>>]
    ELSE
      LET rect == it._selections[it._rect_index + 1]
          row_col == _index_to_row_col(rect, it._cell_index)
          it1 == [it EXCEPT !._cell_index = @ + 1]
      IN  IF row_col = <<>>
          THEN __next___rewind([it1 EXCEPT !._rect_index = @ + 1, !._cell_index = 0])
          ELSE IF _cell_in_previous_selected_rects(it1, row_col[1])
          THEN __next___rewind(it1)
          ELSE [it |-> it1, value |-> row_col]

\* SelectionIterator.__next__: [it, value], the iterator after the call and
\* the cell returned, None standing for StopIteration.
RECURSIVE __next__(_)
__next__(it) ==
    IF it._rect_index >= Len(it._selections) THEN [it |-> it, value |-> <<>>]
    ELSE
      LET rect == it._selections[it._rect_index + 1]
          row_col == _index_to_row_col(rect, it._cell_index)
          it1 == [it EXCEPT !._cell_index = @ + 1]
      IN  IF row_col = <<>>
          THEN __next__([it1 EXCEPT !._rect_index = @ + 1, !._cell_index = 0])
          ELSE IF _cell_in_previous_selected_rects(it1, row_col[1])
          THEN __next__(it1)
          ELSE [it |-> it1, value |-> row_col]

\* The depth of __next__ if covered cells were skipped in a loop: a new
\* call only when a rectangle is exhausted.
RECURSIVE __next___depth_loop(_)
__next___depth_loop(it) ==
    IF it._rect_index >= Len(it._selections) THEN 1
    ELSE
      LET rect == it._selections[it._rect_index + 1]
          row_col == _index_to_row_col(rect, it._cell_index)
          it1 == [it EXCEPT !._cell_index = @ + 1]
      IN  IF row_col = <<>>
          THEN 1 + __next___depth_loop([it1 EXCEPT !._rect_index = @ + 1,
                                                   !._cell_index = 0])
          ELSE IF _cell_in_previous_selected_rects(it1, row_col[1])
          THEN __next___depth_loop(it1)
          ELSE 1

\* The nesting depth of one SelectionIterator.__next__ call on `it`: the
\* call itself, and one more for each `return self.__next__()` it reaches.
RECURSIVE __next___depth(_)
__next___depth(it) ==
    IF it._rect_index >= Len(it._selections) THEN 1
    ELSE
      LET rect == it._selections[it._rect_index + 1]
          row_col == _index_to_row_col(rect, it._cell_index)
          it1 == [it EXCEPT !._cell_index = @ + 1]
      IN  IF row_col = <<>>
          THEN 1 + __next___depth([it1 EXCEPT !._rect_index = @ + 1, !._cell_index = 0])
          ELSE IF _cell_in_previous_selected_rects(it1, row_col[1])
          THEN 1 + __next___depth(it1)
          ELSE 1

\* list(it): __next__ until StopIteration.
RECURSIVE list(_)
list(it) ==
    LET n == __next__(it)
    IN  IF n.value = <<>> THEN <<>> ELSE n.value \o list(n.it)

-----------------------------------------------------------------------------
(* SelectionHelper(data, selections, selection_mode).  _num_columns and    *)
(* _num_rows cache values that depend on data alone, and a helper lives for*)
(* one property access, so they are computed where they are used.          *)

\* SelectionHelper._get_num_columns
_get_num_columns(data) == Len(_get_col_headers(data))

\* SelectionHelper._get_num_rows
_get_num_rows(data) == Len(data.data.rows)

\* _transform_rect_for_selection_mode with the last column and the last row
\* taken to be the counts.
_transform_rect_for_selection_mode_count(data, mode, rect) ==
    IF mode = "row"
    THEN [r1 |-> rect.r1, c1 |-> 0, r2 |-> rect.r2, c2 |-> _get_num_columns(data)]
    ELSE IF mode = "column"
    THEN [r1 |-> 0, c1 |-> rect.c1, r2 |-> _get_num_rows(data), c2 |-> rect.c2]
    ELSE rect

\* SelectionHelper._transform_rect_for_selection_mode
_transform_rect_for_selection_mode(data, mode, rect) ==
    IF mode = "row"
    THEN [r1 |-> rect.r1, c1 |-> 0, r2 |-> rect.r2, c2 |-> _get_num_columns(data) - 1]
    ELSE IF mode = "column"
    THEN [r1 |-> 0, c1 |-> rect.c1, r2 |-> _get_num_rows(data) - 1, c2 |-> rect.c2]
    ELSE rect

\* SelectionHelper.__iter__
__iter__(data, sels, mode) ==
    SelectionIterator([i \in DOMAIN sels |->
                          _transform_rect_for_selection_mode(data, mode, sels[i])])

\* SelectionHelper.all
all(data, sels, mode) == list(__iter__(data, sels, mode))


-----------------------------------------------------------------------------
(* DataGrid: the selection list.                                           *)

\* The rectangle select(...) appends and _validate_selections stores: the
\* same four min/max expressions in both places.
Normalized(r1, c1, r2, c2) ==
    [r1 |-> Min(r1, r2), c1 |-> Min(c1, c2), r2 |-> Max(r1, r2), c2 |-> Max(c1, c2)]

\* select with clear_mode current dropping the first region, not the last.
select_list_pop_first(sels, row1, column1, row2, column2, clear_mode) ==
    LET single == row2 = <<>> \/ column2 = <<>>
        r2 == IF single THEN row1 ELSE row2[1]
        c2 == IF single THEN column1 ELSE column2[1]
        kept == IF clear_mode = "all" THEN <<>>
                ELSE IF clear_mode = "current" /\ Len(sels) > 0
                THEN Tail(sels)
                ELSE sels
    IN  Append(kept, Normalized(row1, column1, r2, c2))

\* select taking the single cell only when both row2 and column2 are
\* missing, and row1 / column1 for whichever is missing otherwise.
select_list_both_missing(sels, row1, column1, row2, column2, clear_mode) ==
    LET r2 == IF row2 = <<>> THEN row1 ELSE row2[1]
        c2 == IF column2 = <<>> THEN column1 ELSE column2[1]
        kept == IF clear_mode = "all" THEN <<>>
                ELSE IF clear_mode = "current" /\ Len(sels) > 0
                THEN SubSeq(sels, 1, Len(sels) - 1)
                ELSE sels
    IN  Append(kept, Normalized(row1, column1, r2, c2))

\* What DataGrid.select leaves in self.selections.
select_list(sels, row1, column1, row2, column2, clear_mode) ==
    LET single == row2 = <<>> \/ column2 = <<>>
        r2 == IF single THEN row1 ELSE row2[1]
        c2 == IF single THEN column1 ELSE column2[1]
        kept == IF clear_mode = "all" THEN <<>>
                ELSE IF clear_mode = "current" /\ Len(sels) > 0
                THEN SubSeq(sels, 1, Len(sels) - 1)
                ELSE sels
    IN  Append(kept, Normalized(row1, column1, r2, c2))

\* _validate_selections ordering the rows and leaving the columns.
_validate_selections_rows_only(proposal) ==
    [i \in DOMAIN proposal |->
        [r1 |-> Min(proposal[i].r1, proposal[i].r2), c1 |-> proposal[i].c1,
         r2 |-> Max(proposal[i].r1, proposal[i].r2), c2 |-> proposal[i].c2]]

\* DataGrid._validate_selections: every rectangle of the proposed list is
\* rewritten with its corners ordered.
_validate_selections(proposal) ==
    [i \in DOMAIN proposal |->
        Normalized(proposal[i].r1, proposal[i].c1, proposal[i].r2, proposal[i].c2)]

SendState(key) == [kind |-> "send_state", key |-> key]

\* DataGrid.select(row1, column1, row2, column2, clear_mode)
select(row1, column1, row2, column2, clear_mode) ==
    /\ Len(select_list(selections, row1, column1, row2, column2, clear_mode)) <= MaxSel
    /\ selections' = select_list(selections, row1, column1, row2, column2, clear_mode)
    /\ events' = <<SendState("selections")>>
    /\ call' = [op |-> "select", row1 |-> row1, column1 |-> column1, row2 |-> row2,
                column2 |-> column2, clear_mode |-> clear_mode]
    /\ UNCHANGED <<iterators, _visible_rows, _transforms, _data, selection_mode, _cell_change_handlers, _index_name,
                   _dataframe_reference, ncalls>>

\* clear_selection removing the last region only.
clear_selection_pop ==
    /\ selections' = SubSeq(selections, 1, Len(selections) - 1)
    /\ events' = <<SendState("selections")>>
    /\ call' = [op |-> "clear_selection", cleared |-> Len(selections)]
    /\ UNCHANGED <<iterators, _visible_rows, _transforms, _data, selection_mode, _cell_change_handlers, _index_name,
                   _dataframe_reference, ncalls>>

\* DataGrid.clear_selection()
clear_selection ==
    /\ selections' = <<>>
    /\ events' = <<SendState("selections")>>
    /\ call' = [op |-> "clear_selection", cleared |-> Len(selections)]
    /\ UNCHANGED <<iterators, _visible_rows, _transforms, _data, selection_mode, _cell_change_handlers, _index_name,
                   _dataframe_reference, ncalls>>

\* grid.selections = value, from the API or from the view: the trait's
\* validator runs on the proposed list.
set_selections(value) ==
    /\ selections' = _validate_selections(value)
    /\ events' = <<>>
    /\ call' = [op |-> "set_selections", value |-> value]
    /\ UNCHANGED <<iterators, _visible_rows, _transforms, _data, selection_mode, _cell_change_handlers, _index_name,
                   _dataframe_reference, ncalls>>

\* grid.selection_mode = mode
set_selection_mode(mode) ==
    /\ selection_mode' = mode
    /\ events' = <<>>
    /\ call' = [op |-> "set_selection_mode"]
    /\ UNCHANGED <<iterators, _visible_rows, _transforms, _data, selections, _cell_change_handlers, _index_name,
                   _dataframe_reference, ncalls>>

\* DataGrid.selected_cells
selected_cells ==
    /\ call' = [op |-> "selected_cells", ret |-> all(_data, selections, selection_mode)]
    /\ events' = <<>>
    /\ UNCHANGED <<iterators, _visible_rows, _transforms, _data, selections, selection_mode, _cell_change_handlers,
                   _index_name, _dataframe_reference, ncalls>>

\* grid.data = dataframe: the references to the frame's labels are taken
\* first, then the data object is generated and assigned to the _data
\* trait, whose validator rejects duplicate field names.
set_data(dataframe) ==
    LET proposal == generate_data_object(dataframe, "ipydguuid",
                        get_dataframe_index(_index_name, dataframe))
    IN  /\ _dataframe_reference' = [index_names |-> <<dataframe.index_name>>,
                                    columns |-> dataframe.columns]
        /\ _data' = IF _validate_data(proposal) THEN proposal ELSE _data
        /\ call' = [op |-> "data", dataframe |-> dataframe,
                    ret |-> IF _validate_data(proposal) THEN "None" ELSE "ValueError"]
        /\ events' = <<>>
        /\ UNCHANGED <<iterators, _visible_rows, _transforms, selections, selection_mode, _cell_change_handlers,
                       _index_name, ncalls>>

\* Rectangles as the API or the view may hand them over: the columns in
\* either order, the rows bottom first (or a single row).
RawRects == {rect \in [r1 : Coords, c1 : Coords, r2 : Coords, c2 : Coords] :
                rect.r1 >= rect.r2}

\* DataGrid(dataframe, index_name=index_name, selection_mode=mode): the
\* state after construction.
ConstructedNamed(index_name, dataframe, mode) ==
    /\ _index_name = index_name
    /\ _dataframe_reference = [index_names |-> <<dataframe.index_name>>,
                               columns |-> dataframe.columns]
    /\ _data = generate_data_object(dataframe, "ipydguuid",
                                    get_dataframe_index(index_name, dataframe))
    /\ selections = <<>>
    /\ selection_mode = mode
    /\ _cell_change_handlers = <<>>
    /\ _transforms = <<>>
    /\ _visible_rows = <<>>
    /\ iterators = [k \in Iterators |-> <<>>]
    /\ call = [op |-> "__init__", dataframe |-> dataframe, ret |-> "None"]
    /\ events = <<>>
    /\ ncalls = 0

\* DataGrid(dataframe, selection_mode=mode)
Constructed(dataframe, mode) == ConstructedNamed(<<>>, dataframe, mode)

Init == \E dataframe \in Frames, mode \in SelectionModes : Constructed(dataframe, mode)

Next ==
    \/ \E row1 \in Coords, column1 \in Coords, row2 \in OptCoords,
          column2 \in OptCoords, clear_mode \in ClearModes :
          select(row1, column1, row2, column2, clear_mode)
    \/ clear_selection
    \/ \E value \in SeqsUpTo(RawRects, MaxAssign) : set_selections(value)
    \/ \E mode \in SelectionModes : set_selection_mode(mode)
    \/ selected_cells
    \/ \E dataframe \in Frames : set_data(dataframe)

\* The selection list, its mode and its traversal over a loaded dataset.
Spec == Init /\ [][Next]_vars

-----------------------------------------------------------------------------
(* DataGrid: the cell setters and the cell-changed notifications.          *)

\* _get_row_index_of_primary_key stopping at the first matching row.
_get_row_index_of_primary_key_first(data, value) ==
    LET key == SubSeq(data.schema.primaryKey, 1, Len(data.schema.primaryKey) - 1)
        df == data.data
        matches(i) == \A k \in DOMAIN key : df.rows[i][key[k]] = value[k]
        ordinals == [i \in DOMAIN df.rows |-> i - 1]
        found == SelectSeq(ordinals, LAMBDA o : matches(o + 1))
    IN  IF Len(value) # Len(key) THEN [error |-> TRUE, rows |-> <<>>]
        ELSE [error |-> FALSE, rows |-> SubSeq(found, 1, Min(1, Len(found)))]

\* DataGrid._get_row_index_of_primary_key, for a key given as a list:
\* [error, rows].  error is the ValueError raised when the key's length is
\* not the primary key's (the guid left out); rows are the ordinals of the
\* rows whose key columns all equal the key, in increasing order.
_get_row_index_of_primary_key(data, value) ==
    LET key == SubSeq(data.schema.primaryKey, 1, Len(data.schema.primaryKey) - 1)
        df == data.data
        matches(i) == \A k \in DOMAIN key : df.rows[i][key[k]] = value[k]
        ordinals == [i \in DOMAIN df.rows |-> i - 1]
    IN  IF Len(value) # Len(key) THEN [error |-> TRUE, rows |-> <<>>]
        ELSE [error |-> FALSE,
              rows |-> SelectSeq(ordinals, LAMBDA o : matches(o + 1))]

\* self._data["data"].loc[row_index, column_name] = new_value, for a row
\* label and a column the frame has.
loc_set(data, row_index, column_name, new_value) ==
    [data EXCEPT !.data.rows[row_index + 1][column_name] = new_value]

\* The content of a cell-changed notification.
CellChanged(data, row, column, value) ==
    [row |-> row, column |-> column,
     column_index |-> _column_name_to_index(data, column), value |-> value]

\* _notify_cell_change without the message to the view.
_notify_cell_change_local_only(data, callbacks, row, column, value) ==
    [i \in DOMAIN callbacks |->
        [kind |-> "callback", callback |-> callbacks[i],
         content |-> CellChanged(data, row, column, value)]]

\* _notify_cell_change with the message to the view ahead of the callbacks.
_notify_cell_change_view_first(data, callbacks, row, column, value) ==
    <<[kind |-> "send", event_type |-> "cell-changed",
       content |-> CellChanged(data, row, column, value)]>>
    \o [i \in DOMAIN callbacks |->
           [kind |-> "callback", callback |-> callbacks[i],
            content |-> CellChanged(data, row, column, value)]]

\* DataGrid._notify_cell_change: the registered callbacks are called in
\* order with the content, then the content is sent to the view.
_notify_cell_change(data, callbacks, row, column, value) ==
    [i \in DOMAIN callbacks |->
        [kind |-> "callback", callback |-> callbacks[i],
         content |-> CellChanged(data, row, column, value)]]
    \o <<[kind |-> "send", event_type |-> "cell-changed",
          content |-> CellChanged(data, row, column, value)]>>

\* The write of one cell, as the events of a call record it.
Written(row, column, value) ==
    [kind |-> "write", row |-> row, column |-> column, value |-> value]

\* The loop of DataGrid.set_cell_value over row_indices, from the state
\* st = [data, events, outcome].
RECURSIVE set_cell_value_loop(_, _, _, _, _)
set_cell_value_loop(st, callbacks, row_indices, column_name, new_value) ==
    IF row_indices = <<>> THEN st
    ELSE
      LET row_index == Head(row_indices)
          has_column == column_name \in Range(st.data.data.columns)
          data1 == loc_set(st.data, row_index, column_name, new_value)
          st1 == IF has_column
                 THEN [st EXCEPT
                         !.data = data1,
                         !.events = @ \o <<Written(row_index, column_name, new_value)>>
                                      \o _notify_cell_change(data1, callbacks, row_index,
                                                             column_name, new_value)]
                 ELSE [st EXCEPT !.outcome = FALSE]
      IN  set_cell_value_loop(st1, callbacks, Tail(row_indices), column_name, new_value)

\* set_cell_value without the early return for a key that is not found.
set_cell_value_result_no_bail(data, callbacks, column_name, primary_key_value, new_value) ==
    LET found == _get_row_index_of_primary_key(data, primary_key_value)
        st == set_cell_value_loop([data |-> data, events |-> <<>>, outcome |-> TRUE],
                                  callbacks, found.rows, column_name, new_value)
    IN  IF found.error THEN [data |-> data, events |-> <<>>, ret |-> "ValueError"]
        ELSE [data |-> st.data, events |-> st.events,
              ret |-> IF st.outcome THEN "True" ELSE "False"]

\* DataGrid.set_cell_value(column_name, primary_key_value, new_value):
\* [data, events, ret].
set_cell_value_result(data, callbacks, column_name, primary_key_value, new_value) ==
    LET found == _get_row_index_of_primary_key(data, primary_key_value)
        st == set_cell_value_loop([data |-> data, events |-> <<>>, outcome |-> TRUE],
                                  callbacks, found.rows, column_name, new_value)
    IN  IF found.error THEN [data |-> data, events |-> <<>>, ret |-> "ValueError"]
        ELSE IF found.rows = <<>> THEN [data |-> data, events |-> <<>>, ret |-> "False"]
        ELSE [data |-> st.data, events |-> st.events,
              ret |-> IF st.outcome THEN "True" ELSE "False"]

\* set_cell_value_by_index without the lower bound on the row.
set_cell_value_by_index_result_no_lower(data, callbacks, column_name, row_index, new_value) ==
    LET has_column == column_name \in Range(data.data.columns)
        data1 == loc_set(data, row_index, column_name, new_value)
    IN  IF has_column /\ row_index < Len(data.data.rows)
        THEN [data |-> data1,
              events |-> <<Written(row_index, column_name, new_value)>>
                         \o _notify_cell_change(data1, callbacks, row_index,
                                                column_name, new_value),
              ret |-> "True"]
        ELSE [data |-> data, events |-> <<>>, ret |-> "False"]

\* DataGrid.set_cell_value_by_index(column_name, row_index, new_value):
\* [data, events, ret].
set_cell_value_by_index_result(data, callbacks, column_name, row_index, new_value) ==
    LET has_column == column_name \in Range(data.data.columns)
        data1 == loc_set(data, row_index, column_name, new_value)
    IN  IF has_column /\ 0 <= row_index /\ row_index < Len(data.data.rows)
        THEN [data |-> data1,
              events |-> <<Written(row_index, column_name, new_value)>>
                         \o _notify_cell_change(data1, callbacks, row_index,
                                                column_name, new_value),
              ret |-> "True"]
        ELSE [data |-> data, events |-> <<>>, ret |-> "False"]

set_cell_value(column_name, primary_key_value, new_value) ==
    LET res == set_cell_value_result(_data, _cell_change_handlers, column_name,
                                     primary_key_value, new_value)
    IN  /\ ncalls < MaxWrites
        /\ ncalls' = ncalls + 1
        /\ _data' = res.data
        /\ events' = res.events
        /\ call' = [op |-> "set_cell_value", column_name |-> column_name,
                    primary_key_value |-> primary_key_value,
                    new_value |-> new_value, ret |-> res.ret]
        /\ UNCHANGED <<iterators, _visible_rows, _transforms, selections, selection_mode, _cell_change_handlers,
                       _index_name, _dataframe_reference>>

set_cell_value_by_index(column_name, row_index, new_value) ==
    LET res == set_cell_value_by_index_result(_data, _cell_change_handlers, column_name,
                                              row_index, new_value)
    IN  /\ ncalls < MaxWrites
        /\ ncalls' = ncalls + 1
        /\ _data' = res.data
        /\ events' = res.events
        /\ call' = [op |-> "set_cell_value_by_index", column_name |-> column_name,
                    row_index |-> row_index, new_value |-> new_value, ret |-> res.ret]
        /\ UNCHANGED <<iterators, _visible_rows, _transforms, selections, selection_mode, _cell_change_handlers,
                       _index_name, _dataframe_reference>>

\* CallbackDispatcher.register_callback, as on_cell_change uses it.
register_callback(callbacks, callback, remove) ==
    IF remove /\ callback \in Range(callbacks)
    THEN SelectSeq(callbacks, LAMBDA c : c # callback)
    ELSE IF ~remove /\ callback \notin Range(callbacks)
    THEN Append(callbacks, callback)
    ELSE callbacks

\* DataGrid.on_cell_change(callback, remove)
on_cell_change(callback, remove) ==
    /\ _cell_change_handlers' = register_callback(_cell_change_handlers, callback, remove)
    /\ events' = <<>>
    /\ call' = [op |-> "on_cell_change", callback |-> callback, remove |-> remove]
    /\ UNCHANGED <<iterators, _visible_rows, _transforms, _data, selections, selection_mode, _index_name,
                   _dataframe_reference, ncalls>>

\* The callbacks that on_cell_change is called with.
Callbacks == {"f", "g"}

\* Column names given to the setters: data columns, the index column, the
\* guid column and a name that is no column.
ColumnNames == {"A", "B", "key", "ipydguuid", "Z"}

\* Primary keys given to set_cell_value: present once, present twice in
\* DupKeyFrame, absent, and of the wrong length.
PrimaryKeys == {<<10>>, <<20>>, <<99>>, <<10, 20>>}

\* Row ordinals given to set_cell_value_by_index.
RowIndices == -1 .. 3

\* Values written.
NewValues == {7, 20}

InitData == \E dataframe \in DataFrames : Constructed(dataframe, "none")

NextData ==
    \/ \E column_name \in ColumnNames, primary_key_value \in PrimaryKeys,
          new_value \in NewValues :
          set_cell_value(column_name, primary_key_value, new_value)
    \/ \E column_name \in ColumnNames, row_index \in RowIndices, new_value \in NewValues :
          set_cell_value_by_index(column_name, row_index, new_value)
    \/ \E callback \in Callbacks, remove \in BOOLEAN : on_cell_change(callback, remove)

\* The cell setters and their notifications on a loaded dataset.
SpecData == InitData /\ [][NextData]_vars

-----------------------------------------------------------------------------
(* Properties of the selection list and its traversal.                     *)

\* The cells of a rectangle, bounds inclusive.
CellsOf(rect) ==
    {[r |-> r, c |-> c] : r \in rect.r1 .. rect.r2, c \in rect.c1 .. rect.c2}

\* Row-major order: by increasing row, and within a row by increasing column.
Before(a, b) == a.r < b.r \/ (a.r = b.r /\ a.c < b.c)

\* The cells of the set S in row-major order.
RECURSIVE RowMajor(_)
RowMajor(S) ==
    IF S = {} THEN <<>>
    ELSE LET first == CHOOSE x \in S : \A y \in S \ {x} : Before(x, y)
         IN  <<first>> \o RowMajor(S \ {first})

\* The number of schema fields that are not primary-key fields.
NumDataColumns(data) ==
    Cardinality({i \in DOMAIN data.schema.fields :
                    data.schema.fields[i] \notin Range(data.schema.primaryKey)})

\* The effective rectangle of a stored region under a selection mode.
EffectiveRect(data, mode, rect) ==
    CASE mode = "row" -> [rect EXCEPT !.c1 = 0, !.c2 = NumDataColumns(data) - 1]
      [] mode = "column" -> [rect EXCEPT !.r1 = 0, !.r2 = Len(data.data.rows) - 1]
      [] OTHER -> rect

\* The effective rectangles of the stored selection list, in order.
EffectiveRects == [i \in DOMAIN selections |->
                      EffectiveRect(_data, selection_mode, selections[i])]

\* The number of positions of the sequence s that hold x.
Occurrences(s, x) == Cardinality({i \in DOMAIN s : s[i] = x})

\* The last call was a traversal of the current selection list.
Traversed == call.op = "selected_cells"

\* C1: in cell mode, a traversal right after a select(r1, c1, r2, c2) that
\* left exactly that one region in the list yields (r2-r1+1)*(c2-c1+1)
\* cells (the bounds normalized), in row-major order, all of them inside
\* [r1, r2] x [c1, c2].
C1_SingleSelectTraversal ==
    [][(/\ call.op = "select" /\ call.row2 # <<>> /\ call.column2 # <<>>
        /\ Len(selections) = 1 /\ selection_mode = "cell"
        /\ call'.op = "selected_cells")
       => LET r1 == Min(call.row1, call.row2[1])
              r2 == Max(call.row1, call.row2[1])
              c1 == Min(call.column1, call.column2[1])
              c2 == Max(call.column1, call.column2[1])
              out == call'.ret
          IN  /\ Len(out) = (r2 - r1 + 1) * (c2 - c1 + 1)
              /\ \A i \in DOMAIN out :
                    /\ r1 <= out[i].r /\ out[i].r <= r2
                    /\ c1 <= out[i].c /\ out[i].c <= c2
              /\ \A i, j \in DOMAIN out : i < j => Before(out[i], out[j])]_vars

\* C1 witness: a cell-mode traversal of a single 2 x 2 region returned its
\* four cells.
C1_Witness ==
    /\ Traversed /\ selection_mode = "cell" /\ Len(selections) = 1
    /\ selections[1] = [r1 |-> 0, c1 |-> 0, r2 |-> 1, c2 |-> 1]
    /\ Len(call.ret) = 4

\* C2: with two overlapping regions A then B in the list, the traversal is
\* A's cells in row-major order followed by the cells of B that are not in
\* A, in B's row-major order; so every cell of the intersection is yielded
\* exactly once and among A's cells.
C2_OverlapYieldedOnceInA ==
    (/\ Traversed /\ Len(selections) = 2
     /\ CellsOf(EffectiveRects[1]) \cap CellsOf(EffectiveRects[2]) # {})
    => LET A == CellsOf(EffectiveRects[1])
           B == CellsOf(EffectiveRects[2])
           out == call.ret
       IN  /\ out = RowMajor(A) \o RowMajor(B \ A)
           /\ \A x \in A \cap B :
                 /\ Occurrences(out, x) = 1
                 /\ \E i \in 1 .. Cardinality(A) : out[i] = x /\ RowMajor(A)[i] = x

\* C2 witness: a traversal of two regions that overlap without either
\* containing the other.
C2_Witness ==
    /\ Traversed /\ Len(selections) = 2
    /\ LET A == CellsOf(EffectiveRects[1])
           B == CellsOf(EffectiveRects[2])
       IN  A \cap B # {} /\ A \ B # {} /\ B \ A # {}

\* C3: in every selection mode and for every selection list, a traversal
\* yields each cell covered by an effective rectangle exactly once and no
\* other cell.
C3_EachCoveredCellOnce ==
    Traversed
    => LET covered == UNION {CellsOf(EffectiveRects[i]) : i \in DOMAIN selections}
           out == call.ret
       IN  /\ Range(out) = covered
           /\ Len(out) = Cardinality(covered)
           /\ \A x \in covered : Occurrences(out, x) = 1

\* C3 witness: a row-mode traversal of two regions that share a row, over a
\* dataset with two data columns.
C3_Witness ==
    /\ Traversed /\ selection_mode = "row" /\ Len(selections) = 2
    /\ NumDataColumns(_data) = 2
    /\ selections[1].r1 < selections[1].r2 /\ selections[2].r1 = selections[1].r2
    /\ selections[1].c1 = selections[1].c2
    /\ Len(call.ret) = 4

\* C4 as stated: after clear_selection the list is empty, traversing an
\* empty list yields nothing, and an empty list stays empty until the next
\* select.
C4_EmptyUntilNextSelect ==
    /\ [](call.op = "clear_selection" => selections = <<>>)
    /\ []((Traversed /\ selections = <<>>) => call.ret = <<>>)
    /\ [][(selections = <<>> /\ selections' # <<>>) => call'.op = "select"]_vars

\* C4 as amended: the same, an empty list staying empty until the next
\* select or the next assignment of a selections list.
C4_EmptyUntilNextSelectOrAssignment ==
    /\ [](call.op = "clear_selection" => selections = <<>>)
    /\ []((Traversed /\ selections = <<>>) => call.ret = <<>>)
    /\ [][(selections = <<>> /\ selections' # <<>>)
          => call'.op \in {"select", "set_selections"}]_vars

\* C4 witness: clear_selection has emptied a list of two regions in a mode
\* that expands regions.
C4_Witness ==
    /\ call.op = "clear_selection" /\ call.cleared = 2 /\ selection_mode = "row"

\* The region a select call with both row2 and column2 given is to add.
SelectedRegion(c) ==
    [r1 |-> Min(c.row1, c.row2[1]), c1 |-> Min(c.column1, c.column2[1]),
     r2 |-> Max(c.row1, c.row2[1]), c2 |-> Max(c.column1, c.column2[1])]

\* C5: select with prior list S and new normalized region n leaves [n]
\* under clear_mode all, S without its last element followed by n under
\* current, and S followed by n under none; the list is never empty after
\* a select.
C5_SelectClearMode ==
    [][call'.op = "select"
       => LET S == selections
              n == selections'[Len(selections')]
              kept == SubSeq(selections', 1, Len(selections') - 1)
          IN  /\ selections' # <<>>
              /\ n.r1 <= n.r2 /\ n.c1 <= n.c2
              /\ (call'.row2 # <<>> /\ call'.column2 # <<>>) => n = SelectedRegion(call')
              /\ call'.clear_mode = "all" => kept = <<>>
              /\ call'.clear_mode = "current" =>
                    kept = IF S = <<>> THEN <<>> ELSE SubSeq(S, 1, Len(S) - 1)
              /\ call'.clear_mode = "none" => kept = S]_vars

\* C5 witness: a select with clear_mode current has replaced the last of two
\* regions by a different one.
C5_Witness ==
    /\ call.op = "select" /\ call.clear_mode = "current"
    /\ Len(selections) = 2 /\ selections[1] # selections[2]

\* C6: every stored region has r1 <= r2 and c1 <= c2.
C6_StoredRegionsNormalized ==
    \A i \in DOMAIN selections :
        selections[i].r1 <= selections[i].r2 /\ selections[i].c1 <= selections[i].c2

\* C6 witness: a list with a rectangle given bottom-right corner first has
\* been assigned.
C6_Witness ==
    /\ call.op = "set_selections" /\ Len(call.value) = 1
    /\ call.value[1].r1 > call.value[1].r2 /\ call.value[1].c1 > call.value[1].c2
    /\ Len(selections) = 1

\* C7: while the selection mode is none, a select call leaves the selection
\* list as it was.
C7_NoneModeSelectAddsNothing ==
    [][(selection_mode = "none" /\ call'.op = "select") => selections' = selections]_vars

-----------------------------------------------------------------------------
(* Properties of the cell setters.                                         *)

\* The primary-key fields of the data object, the guid left out.
KeyFields(data) ==
    SelectSeq(data.schema.primaryKey, LAMBDA f : f # data.schema.primaryKeyUuid)

\* The ordinals of the rows of data whose key fields hold the key.
MatchingRows(data, key) ==
    {i - 1 : i \in {j \in DOMAIN data.data.rows :
                       \A k \in DOMAIN KeyFields(data) :
                           data.data.rows[j][KeyFields(data)[k]] = key[k]}}

\* The frame of the data object has the column.
HasColumn(data, column) == column \in Range(data.data.columns)

\* The ordinals of the rows of data.
RowOrdinals(data) == {i - 1 : i \in DOMAIN data.data.rows}

\* The cell-changed notifications among the events: those handed to the
\* callback cb, and those sent to the view.
ToCallback(evs, cb) == SelectSeq(evs, LAMBDA e : e.kind = "callback" /\ e.callback = cb)

ToView(evs) == SelectSeq(evs, LAMBDA e : e.kind = "send")

\* The notifications in ns that are about the cell (row, column) and value.
About(ns, row, column, value) ==
    {i \in DOMAIN ns : /\ ns[i].content.row = row
                       /\ ns[i].content.column = column
                       /\ ns[i].content.value = value}

\* Every sink (each registered callback, and the view) got exactly one
\* notification for each row of `rows`, about (row, column, value), and
\* nothing else.
NotifiedOncePerRow(evs, callbacks, rows, column, value) ==
    \A ns \in {ToView(evs)} \cup {ToCallback(evs, cb) : cb \in Range(callbacks)} :
        /\ Len(ns) = Cardinality(rows)
        /\ \A row \in rows : Cardinality(About(ns, row, column, value)) = 1

\* data2 is data1 with `value` in the column `column` of the rows `rows`
\* and every other cell as it was.
WrittenExactly(data1, data2, rows, column, value) ==
    /\ data2.schema = data1.schema
    /\ data2.data.columns = data1.data.columns
    /\ DOMAIN data2.data.rows = DOMAIN data1.data.rows
    /\ \A i \in DOMAIN data1.data.rows : \A f \in Range(data1.data.columns) :
          data2.data.rows[i][f] = IF i - 1 \in rows /\ f = column THEN value
                                  ELSE data1.data.rows[i][f]

\* C8: set_cell_value with a key that no row matches returns false, leaves
\* the data as it was and notifies nobody.
C8_NoMatchNoEffect ==
    [][(/\ call'.op = "set_cell_value"
        /\ Len(call'.primary_key_value) = Len(KeyFields(_data))
        /\ MatchingRows(_data, call'.primary_key_value) = {})
       => /\ call'.ret = "False"
          /\ _data' = _data
          /\ events' = <<>>]_vars

\* C8 witness: set_cell_value on an existing column with an absent key has
\* returned false while a callback was registered.
C8_Witness ==
    /\ call.op = "set_cell_value" /\ call.primary_key_value = <<99>>
    /\ call.column_name = "A" /\ call.ret = "False"
    /\ _cell_change_handlers # <<>>

\* C9: set_cell_value with a key that some rows match writes the value into
\* the column of every matching row and into no other cell, notifies every
\* callback and the view exactly once per row written, and returns true
\* exactly when the matching rows had the column; what was written stays
\* written when the result is false.
C9_WritesEveryMatchingRow ==
    [][(/\ call'.op = "set_cell_value"
        /\ Len(call'.primary_key_value) = Len(KeyFields(_data))
        /\ MatchingRows(_data, call'.primary_key_value) # {})
       => LET rows == MatchingRows(_data, call'.primary_key_value)
              column == call'.column_name
              value == call'.new_value
              written == IF HasColumn(_data, column) THEN rows ELSE {}
          IN  /\ WrittenExactly(_data, _data', written, column, value)
              /\ NotifiedOncePerRow(events', _cell_change_handlers, written, column, value)
              /\ call'.ret = "True" <=> HasColumn(_data, column)
              /\ \A i \in DOMAIN events' :
                    events'[i].kind = "write" =>
                       _data'.data.rows[events'[i].row + 1][events'[i].column]
                          = events'[i].value]_vars

\* C9 witness: set_cell_value has written both rows of a key that two rows
\* share, with two callbacks registered.
C9_Witness ==
    /\ call.op = "set_cell_value" /\ call.primary_key_value = <<20>>
    /\ call.column_name = "B" /\ call.ret = "True"
    /\ Len(_cell_change_handlers) = 2
    /\ Len(ToView(events)) = 2
    /\ _data.data.rows[2]["B"] = call.new_value /\ _data.data.rows[3]["B"] = call.new_value
    /\ _data.data.rows[1]["B"] # call.new_value

\* C10: set_cell_value_by_index returns true, having written exactly the
\* cell (row_ordinal, column) and notified every sink exactly once, if and
\* only if the column exists and 0 <= row_ordinal < number of rows;
\* otherwise it returns false, the data is as it was and nobody is notified.
C10_ByIndexBoundsChecked ==
    [][call'.op = "set_cell_value_by_index"
       => LET column == call'.column_name
              row == call'.row_index
              value == call'.new_value
              ok == HasColumn(_data, column) /\ row \in RowOrdinals(_data)
          IN  /\ call'.ret = "True" <=> ok
              /\ call'.ret \in {"True", "False"}
              /\ ok => /\ WrittenExactly(_data, _data', {row}, column, value)
                       /\ NotifiedOncePerRow(events', _cell_change_handlers, {row},
                                             column, value)
              /\ ~ok => /\ _data' = _data
                        /\ events' = <<>>]_vars

\* C10 witness: set_cell_value_by_index has written the last row of a
\* dataset of three rows, with one callback registered.
C10_Witness ==
    /\ call.op = "set_cell_value_by_index" /\ call.column_name = "A"
    /\ call.row_index = 2 /\ call.ret = "True" /\ _data.data.rows[3]["A"] = 7
    /\ Len(_cell_change_handlers) = 1 /\ Len(events) = 3

\* C11: the surrogate id of every row equals the row's ordinal, whatever
\* cell setters have been called.
C11_SurrogateIdsImmutable ==
    \A i \in DOMAIN _data.data.rows :
        _data.data.rows[i][_data.schema.primaryKeyUuid] = i - 1

-----------------------------------------------------------------------------
(* DataGrid: loading a dataset, reading it back, and the lookups by        *)
(* position and by primary key.  A lookup's result is [error, value]:      *)
(* error names the exception raised ("" when none is), value is None or    *)
(* the value returned.                                                     *)

\* Two columns, "key" and "key_0": the first suffix is taken too.
KeySuffixFrame ==
    [index_name |-> <<>>, index |-> <<10>>, columns |-> <<"key", "key_0">>,
     values |-> <<(<<1, 4>>)>>]

\* An index named like one of the columns.
NamedIndexFrame ==
    [index_name |-> <<"B">>, index |-> <<10, 20>>, columns |-> <<"A", "B">>,
     values |-> <<(<<1, 4>>), (<<2, 5>>)>>]

\* A column named like the guid column.
GuidColumnFrame ==
    [index_name |-> <<>>, index |-> <<10, 20>>, columns |-> <<"ipydguuid", "A">>,
     values |-> <<(<<5, 1>>), (<<6, 2>>)>>]

\* Two columns with the same name.
DupColumnsFrame ==
    [index_name |-> <<"idx">>, index |-> <<10>>, columns |-> <<"A", "A">>,
     values |-> <<(<<1, 4>>)>>]

\* The dataframes a grid can be constructed from in the load specification.
LoadFrames == {ExampleFrame, DupKeyFrame, NoRowsFrame, KeyColumnFrame,
               KeySuffixFrame, NamedIndexFrame, GuidColumnFrame}

\* The index_name argument of the constructor: None, a fresh name, the
\* name of a column, the name of the guid column.
IndexNames == {<<>>, <<"idx">>, <<"A">>, <<"ipydguuid">>}

\* No exception, and a result.
Returned(value) == [error |-> "", value |-> value]

\* An exception.
Raised(error) == [error |-> error, value |-> <<>>]

\* col_headers[column_index], a Python list subscript: a negative index
\* counts from the end, an index outside -len .. len - 1 raises IndexError.
list_item(col_headers, column_index) ==
    IF 0 <= column_index /\ column_index < Len(col_headers)
    THEN Returned(<<col_headers[column_index + 1]>>)
    ELSE IF column_index < 0 /\ -Len(col_headers) <= column_index
    THEN Returned(<<col_headers[Len(col_headers) + column_index + 1]>>)
    ELSE Raised("IndexError")

\* DataGrid._column_index_to_name
_column_index_to_name(data, column_index) ==
    LET col_headers == _get_col_headers(data)
    IN  IF Len(col_headers) <= column_index THEN Returned(<<>>)
        ELSE list_item(col_headers, column_index)

\* data["data"].loc[row_index, column], for a column the frame has: the
\* row is looked up by label, and the labels are the ordinals.
loc_get(data, row_index, column) ==
    IF 0 <= row_index /\ row_index < Len(data.data.rows)
    THEN Returned(<<data.data.rows[row_index + 1][column]>>)
    ELSE Raised("KeyError")

\* DataGrid._get_cell_value_by_numerical_index
_get_cell_value_by_numerical_index(data, column_index, row_index) ==
    LET column == _column_index_to_name(data, column_index)
    IN  IF column.error # "" THEN column
        ELSE IF column.value = <<>> THEN Returned(<<>>)
        ELSE loc_get(data, row_index, column.value[1])

\* The DataGrid.data getter: the frame of the data object with the primary
\* key without its last element as the index, without its last column and
\* without a column called "ipydguuid".
data_getter(data) ==
    LET trimmed_primary_key ==
            SubSeq(data.schema.primaryKey, 1, Len(data.schema.primaryKey) - 1)
        indexed == SelectSeq(data.data.columns,
                             LAMBDA c : c \notin Range(trimmed_primary_key))
        trimmed == SubSeq(indexed, 1, Len(indexed) - 1)
        columns == SelectSeq(trimmed, LAMBDA c : c # "ipydguuid")
    IN  [index_name |-> <<trimmed_primary_key[1]>>,
         index |-> [i \in DOMAIN data.data.rows |->
                       data.data.rows[i][trimmed_primary_key[1]]],
         columns |-> columns,
         values |-> [i \in DOMAIN data.data.rows |->
                        [j \in DOMAIN columns |-> data.data.rows[i][columns[j]]]]]

\* grid.data
get_data ==
    /\ call' = [op |-> "get_data", ret |-> data_getter(_data)]
    /\ events' = <<>>
    /\ UNCHANGED <<iterators, _visible_rows, _transforms, _data, selections, selection_mode,
                   _cell_change_handlers, _index_name, _dataframe_reference, ncalls>>

\* DataGrid._column_index_to_name(grid._data, column_index)
column_index_to_name(column_index) ==
    /\ call' = [op |-> "_column_index_to_name", column_index |-> column_index,
                ret |-> _column_index_to_name(_data, column_index)]
    /\ events' = <<>>
    /\ UNCHANGED <<iterators, _visible_rows, _transforms, _data, selections, selection_mode,
                   _cell_change_handlers, _index_name, _dataframe_reference, ncalls>>

\* DataGrid._get_cell_value_by_numerical_index(grid._data, column_index, row_index)
get_cell_value_by_numerical_index(column_index, row_index) ==
    /\ call' = [op |-> "_get_cell_value_by_numerical_index",
                column_index |-> column_index, row_index |-> row_index,
                ret |-> _get_cell_value_by_numerical_index(_data, column_index,
                                                           row_index)]
    /\ events' = <<>>
    /\ UNCHANGED <<iterators, _visible_rows, _transforms, _data, selections, selection_mode,
                   _cell_change_handlers, _index_name, _dataframe_reference, ncalls>>

\* grid._get_row_index_of_primary_key(value)
get_row_index_of_primary_key(value) ==
    /\ call' = [op |-> "_get_row_index_of_primary_key", value |-> value,
                ret |-> _get_row_index_of_primary_key(_data, value)]
    /\ events' = <<>>
    /\ UNCHANGED <<iterators, _visible_rows, _transforms, _data, selections, selection_mode,
                   _cell_change_handlers, _index_name, _dataframe_reference, ncalls>>

\* Column positions given to the lookups.
ColumnIndices == -3 .. 3

InitLoad ==
    \E index_name \in IndexNames, dataframe \in LoadFrames :
        ConstructedNamed(index_name, dataframe, "none")

NextLoad ==
    \/ \E dataframe \in LoadFrames \cup {DupColumnsFrame} : set_data(dataframe)
    \/ get_data
    \/ \E column_index \in ColumnIndices : column_index_to_name(column_index)
    \/ \E column_index \in ColumnIndices, row_index \in RowIndices :
          get_cell_value_by_numerical_index(column_index, row_index)
    \/ \E value \in PrimaryKeys : get_row_index_of_primary_key(value)

\* Loading datasets, reading them back and looking cells and rows up.
SpecLoad == InitLoad /\ [][NextLoad]_vars

-----------------------------------------------------------------------------
(* DataGrid: the transform list.  A transform is [columnIndex, column],    *)
(* each None or present; its other entries (type, operator, value) are     *)
(* not read by the controller and are left out.                            *)

\* The longest transform list given to transform().
MaxTransforms == 1

\* The transforms given: with and without a column name, and with a
\* columnIndex that is absent, negative, inside, at and past the number of
\* fields of the datasets loaded.
Transforms ==
    [columnIndex : {<<>>, <<-1>>, <<0>>, <<1>>, <<4>>, <<5>>}, column : {<<>>, <<"A">>}]

\* The datasets the transform lists are validated against: four and three
\* schema fields, with and without rows.
TransformFrames == {ExampleFrame, NoRowsFrame, KeyColumnFrame}

\* The loop of DataGrid._validate_transforms from the transform at
\* position i on: [error, value], where value is the list with the column
\* names filled in.  fields[columnIndex] is a list subscript, evaluated
\* before the bounds test when the transform names no column.
RECURSIVE _validate_transforms_loop(_, _, _)
_validate_transforms_loop(data, transforms, i) ==
    LET field_len == Len(data.schema.fields)
        transform == transforms[i]
        name == list_item(data.schema.fields, transform.columnIndex[1])
        filled == IF transform.column = <<>>
                  THEN [transforms EXCEPT ![i].column = name.value]
                  ELSE transforms
    IN  IF i > Len(transforms) THEN Returned(transforms)
        ELSE IF transform.columnIndex = <<>>
        THEN _validate_transforms_loop(data, transforms, i + 1)
        ELSE IF transform.column = <<>> /\ name.error # "" THEN Raised(name.error)
        ELSE IF transform.columnIndex[1] > field_len THEN Raised("ValueError")
        ELSE _validate_transforms_loop(data, filled, i + 1)

\* DataGrid._validate_transforms
_validate_transforms(data, transforms) == _validate_transforms_loop(data, transforms, 1)

\* DataGrid.transform(transforms): the assignment is validated, and a
\* rejected assignment leaves the stored list as it was.
transform(transforms) ==
    LET validated == _validate_transforms(_data, transforms)
    IN  /\ _transforms' = IF validated.error = "" THEN validated.value ELSE _transforms
        /\ call' = [op |-> "transform", transforms |-> transforms,
                    ret |-> IF validated.error = "" THEN "None" ELSE validated.error]
        /\ events' = IF validated.error = "" THEN <<SendState("_transforms")>> ELSE <<>>
        /\ UNCHANGED <<iterators, _visible_rows, _data, selections, selection_mode, _cell_change_handlers,
                       _index_name, _dataframe_reference, ncalls>>

\* DataGrid.revert()
revert ==
    /\ _transforms' = <<>>
    /\ call' = [op |-> "revert", ret |-> "None"]
    /\ events' = <<SendState("_transforms")>>
    /\ UNCHANGED <<iterators, _visible_rows, _data, selections, selection_mode, _cell_change_handlers,
                   _index_name, _dataframe_reference, ncalls>>

InitTransform == \E dataframe \in TransformFrames : Constructed(dataframe, "none")

NextTransform ==
    \/ \E transforms \in SeqsUpTo(Transforms, MaxTransforms) : transform(transforms)
    \/ revert

\* Assigning and reverting transform lists on a loaded dataset.
SpecTransform == InitTransform /\ [][NextTransform]_vars

-----------------------------------------------------------------------------
(* Properties of loading and of the lookups.                               *)

\* The sequence of integers is strictly increasing.
Increasing(s) == \A i, j \in DOMAIN s : i < j => s[i] < s[j]

\* C12: _get_row_index_of_primary_key fails with the length-mismatch
\* error exactly when the key has not as many components as the primary
\* key has fields (the surrogate excluded); otherwise it returns, in
\* increasing order, exactly the ordinals of the rows whose key fields all
\* equal the key.
C12_RowsForPrimaryKey ==
    call.op = "_get_row_index_of_primary_key" =>
        IF Len(call.value) # Len(KeyFields(_data))
        THEN call.ret.error
        ELSE /\ ~call.ret.error
             /\ Increasing(call.ret.rows)
             /\ Range(call.ret.rows) = MatchingRows(_data, call.value)

\* A key held by two rows has been looked up, and both ordinals returned.
C12_Witness ==
    /\ call.op = "_get_row_index_of_primary_key"
    /\ call.value = <<20>>
    /\ call.ret = [error |-> FALSE, rows |-> <<1, 2>>]

\* The last call loaded a dataset: the constructor, or an accepted
\* assignment of data.
Loaded(c) == c.op \in {"__init__", "data"} /\ c.ret = "None"

\* C13: an assignment of data rejected with the validation error leaves
\* the stored data and schema, and the remembered index names and column
\* labels, as they were.
C13_RejectedLoadChangesNothing ==
    [][call'.op = "data" /\ call'.ret = "ValueError"
          => /\ _data' = _data
             /\ _dataframe_reference' = _dataframe_reference]_vars

\* C14: after a load the schema's field names are pairwise distinct and
\* the surrogate key field is named like no column of the dataset loaded.
C14_SurrogateNameUnused ==
    Loaded(call) =>
        /\ \A i, j \in DOMAIN _data.schema.fields :
               i # j => _data.schema.fields[i] # _data.schema.fields[j]
        /\ _data.schema.primaryKeyUuid \notin Range(call.dataframe.columns)

\* The data columns of the schema: the fields that are no primary-key
\* field, in schema order.
DataColumns(data) ==
    SelectSeq(data.schema.fields, LAMBDA f : f \notin Range(data.schema.primaryKey))

\* C15: _column_index_to_name(i) returns the i-th data column for
\* 0 <= i < number of data columns, and None for every other i.
C15_ColumnIndexToName ==
    call.op = "_column_index_to_name" =>
        IF 0 <= call.column_index /\ call.column_index < Len(DataColumns(_data))
        THEN call.ret = Returned(<<DataColumns(_data)[call.column_index + 1]>>)
        ELSE call.ret = Returned(<<>>)

\* C16: _get_cell_value_by_numerical_index never raises: it returns None
\* when the column index or the row index is out of range, and otherwise
\* the value stored at that row in that data column.
C16_CellValueOrNone ==
    call.op = "_get_cell_value_by_numerical_index" =>
        IF /\ 0 <= call.column_index /\ call.column_index < Len(DataColumns(_data))
           /\ call.row_index \in RowOrdinals(_data)
        THEN call.ret = Returned(<<_data.data.rows[call.row_index + 1]
                                       [DataColumns(_data)[call.column_index + 1]]>>)
        ELSE call.ret = Returned(<<>>)

\* C17: a transform list with a columnIndex that is no position in the
\* schema's field list is rejected with the validation error, and the
\* stored list stays as it was.
C17_OutOfBoundsColumnIndexRejected ==
    [][(/\ call'.op = "transform"
        /\ \E i \in DOMAIN call'.transforms :
              /\ call'.transforms[i].columnIndex # <<>>
              /\ \/ call'.transforms[i].columnIndex[1] < 0
                 \/ call'.transforms[i].columnIndex[1] >= Len(_data.schema.fields))
          => /\ call'.ret = "ValueError"
             /\ _transforms' = _transforms]_vars

\* C18: after a load the schema's fields are the index field, the columns
\* of the dataset in their order, and the surrogate key; the primary key
\* is the index field and the surrogate key; primaryKeyUuid is the
\* surrogate key; and every row holds its ordinal as surrogate value, its
\* index label and its cells.
C18_DataObjectLayout ==
    Loaded(call) =>
        LET schema == _data.schema
            axis == schema.fields[1]
            guid == schema.fields[Len(schema.fields)]
        IN  /\ schema.fields = <<axis>> \o call.dataframe.columns \o <<guid>>
            /\ schema.primaryKey = <<axis, guid>>
            /\ schema.primaryKeyUuid = guid
            /\ Len(_data.data.rows) = Len(call.dataframe.index)
            /\ \A i \in DOMAIN _data.data.rows :
                  /\ _data.data.rows[i][guid] = i - 1
                  /\ _data.data.rows[i][axis] = call.dataframe.index[i]
                  /\ \A j \in DOMAIN call.dataframe.columns :
                        _data.data.rows[i][call.dataframe.columns[j]]
                            = call.dataframe.values[i][j]

\* The name chosen for the index field: the index_name given at
\* construction, else the dataset's index name, else "key".
ChosenIndexName(index_name, dataframe) ==
    IF index_name # <<>> THEN index_name[1]
    ELSE IF dataframe.index_name # <<>> THEN dataframe.index_name[1]
    ELSE "key"

\* name is the index field's name for the chosen name and the names taken:
\* the chosen name when it is not taken, else chosen_x for the smallest
\* x >= 0 with chosen_x not taken.
IndexFieldNamed(name, chosen, taken) ==
    IF chosen \notin taken THEN name = chosen
    ELSE \E x \in 0 .. Cardinality(taken) :
            /\ name = Suffixed(chosen, x)
            /\ name \notin taken
            /\ \A y \in 0 .. x - 1 : Suffixed(chosen, y) \in taken

C20_RoundTrip ==
    [][Loaded(call) /\ call'.op = "get_data"
          => /\ call'.ret.columns = call.dataframe.columns
             /\ call'.ret.values = call.dataframe.values
             /\ call'.ret.index = call.dataframe.index]_vars

-----------------------------------------------------------------------------
(* Properties of single-cell selection and of out-of-range regions.        *)

\* C23: select called without row2 or without column2 appends the single
\* cell (row1, column1), whichever of the two was given.
C23_MissingCornerSelectsSingleCell ==
    (call.op = "select" /\ (call.row2 = <<>> \/ call.column2 = <<>>)) =>
        /\ selections # <<>>
        /\ selections[Len(selections)] =
               [r1 |-> call.row1, c1 |-> call.column1,
                r2 |-> call.row1, c2 |-> call.column1]

\* select(0, 0, row2=1) has been called: row2 was given, column2 was not,
\* and the region appended is the cell (0, 0).
C23_Witness ==
    /\ call.op = "select"
    /\ call.row1 = 0 /\ call.column1 = 0
    /\ call.row2 = <<1>> /\ call.column2 = <<>>
    /\ selections[Len(selections)] = [r1 |-> 0, c1 |-> 0, r2 |-> 0, c2 |-> 0]

\* The cell is a cell of the data: its row is a row ordinal and its column
\* the position of a data column.
InRange(data, cell) ==
    /\ 0 <= cell.r /\ cell.r < _get_num_rows(data)
    /\ 0 <= cell.c /\ cell.c < _get_num_columns(data)

\* C24: a traversal yields only cells inside the dataset's row and column
\* range, whatever regions are stored.
C24_TraversalYieldsInRangeCellsOnly ==
    call.op = "selected_cells" =>
        \A i \in DOMAIN call.ret : InRange(_data, call.ret[i])

-----------------------------------------------------------------------------
(* Properties of the order of a cell setter's steps.                       *)

\* The events from position base + 1 on are the steps for one cell: the
\* write, then one call of every callback in registration order, then one
\* message to the view, all about the same cell and value and with the
\* same content.
CellSteps(evs, base, callbacks) ==
    LET n == Len(callbacks)
        write == evs[base + 1]
        send == evs[base + n + 2]
    IN  /\ write.kind = "write"
        /\ \A i \in 1 .. n :
              /\ evs[base + 1 + i].kind = "callback"
              /\ evs[base + 1 + i].callback = callbacks[i]
              /\ evs[base + 1 + i].content = send.content
        /\ send.kind = "send"
        /\ send.content.row = write.row
        /\ send.content.column = write.column
        /\ send.content.value = write.value

\* The events are the steps for the cells of the rows written, one cell
\* after the other, by increasing row.
StepsInOrder(evs, callbacks) ==
    LET size == Len(callbacks) + 2
    IN  /\ Len(evs) % size = 0
        /\ \A k \in 0 .. (Len(evs) \div size) - 1 : CellSteps(evs, k * size, callbacks)
        /\ \A k \in 1 .. (Len(evs) \div size) - 1 :
              evs[(k - 1) * size + 1].row < evs[k * size + 1].row

\* C27: a cell setter writes the cell, calls every registered callback once
\* in registration order and then sends one message to the view, cell by
\* cell, with the same content for callbacks and view; and a callback
\* removed with remove=True is registered no more, so it is not called.
C27_WriteThenCallbacksThenView ==
    [][/\ call'.op \in {"set_cell_value", "set_cell_value_by_index"}
          => /\ StepsInOrder(events', _cell_change_handlers)
             /\ call'.ret = "True" => events' # <<>>
       /\ (call'.op = "on_cell_change" /\ call'.remove)
          => call'.callback \notin Range(_cell_change_handlers')]_vars

\* set_cell_value has written the two rows of a shared key with the
\* callbacks g and f registered in this order: eight steps.
C27_Witness ==
    /\ call.op = "set_cell_value" /\ call.primary_key_value = <<20>>
    /\ call.column_name = "A" /\ call.ret = "True"
    /\ _cell_change_handlers = <<"g", "f">>
    /\ Len(events) = 8
    /\ events[2].callback = "g" /\ events[3].callback = "f"
    /\ events[4].kind = "send" /\ events[5].kind = "write"

-----------------------------------------------------------------------------
(* Traversals held by the caller: it = iter(grid.selected_cell_iterator),  *)
(* advanced with next(it) between other calls on the grid.  What is held   *)
(* under a name is None or [iterator, selections, selection_mode, yielded, *)
(* stopped]: the SelectionIterator object, the selection list and mode of  *)
(* the grid when it was made, the cells it has returned so far and whether *)
(* it has raised StopIteration.                                            *)

\* The dataset traversed step by step.
IterFrames == {ExampleFrame}

\* The modes traversed step by step.
IterModes == {"cell", "row"}

\* it = iter(grid.selected_cell_iterator): SelectionHelper.__iter__ builds
\* a new list of rectangles and a new SelectionIterator over it.
iter(k) ==
    /\ iterators' = [iterators EXCEPT ![k] =
          <<[iterator |-> __iter__(_data, selections, selection_mode),
             selections |-> selections,
             selection_mode |-> selection_mode,
             yielded |-> <<>>,
             stopped |-> FALSE]>>]
    /\ call' = [op |-> "__iter__", iterator |-> k]
    /\ events' = <<>>
    /\ UNCHANGED <<_visible_rows, _transforms, _data, selections, selection_mode,
                   _cell_change_handlers, _index_name, _dataframe_reference, ncalls>>

\* next(it) with one cursor for all the iterators held: advancing one
\* puts every other at the same position.
next_shared_cursor(k) ==
    /\ iterators[k] # <<>>
    /\ LET held == iterators[k][1]
           n == __next__(held.iterator)
       IN  /\ iterators' = [j \in Iterators |->
                 IF j = k
                 THEN <<[held EXCEPT !.iterator = n.it,
                                     !.yielded = IF n.value = <<>> THEN @
                                                 ELSE Append(@, n.value[1]),
                                     !.stopped = @ \/ n.value = <<>>]>>
                 ELSE IF iterators[j] = <<>> THEN <<>>
                 ELSE <<[iterators[j][1] EXCEPT
                           !.iterator._rect_index = n.it._rect_index,
                           !.iterator._cell_index = n.it._cell_index]>>]
           /\ call' = [op |-> "__next__", iterator |-> k, ret |-> n.value,
                       depth |-> __next___depth(held.iterator),
                       after_stop |-> held.stopped]
    /\ events' = <<>>
    /\ UNCHANGED <<_visible_rows, _transforms, _data, selections, selection_mode,
                   _cell_change_handlers, _index_name, _dataframe_reference, ncalls>>

\* next(it) with the iterator reading the grid's selection list as it is
\* at the advance, not the list built when the iterator was made.
next_live_list(k) ==
    /\ iterators[k] # <<>>
    /\ LET held == iterators[k][1]
           live == __iter__(_data, selections, selection_mode)._selections
           n == __next__([held.iterator EXCEPT !._selections = live])
       IN  /\ iterators' = [iterators EXCEPT ![k] =
                 <<[held EXCEPT !.iterator = n.it,
                                !.yielded = IF n.value = <<>> THEN @
                                            ELSE Append(@, n.value[1]),
                                !.stopped = @ \/ n.value = <<>>]>>]
           /\ call' = [op |-> "__next__", iterator |-> k, ret |-> n.value,
                       depth |-> __next___depth(held.iterator),
                       after_stop |-> held.stopped]
    /\ events' = <<>>
    /\ UNCHANGED <<_visible_rows, _transforms, _data, selections, selection_mode,
                   _cell_change_handlers, _index_name, _dataframe_reference, ncalls>>

\* next(it) on the iterator held under k: the cell returned, or None for
\* StopIteration.
next(k) ==
    /\ iterators[k] # <<>>
    /\ LET held == iterators[k][1]
           n == __next__(held.iterator)
       IN  /\ iterators' = [iterators EXCEPT ![k] =
                 <<[held EXCEPT !.iterator = n.it,
                                !.yielded = IF n.value = <<>> THEN @
                                            ELSE Append(@, n.value[1]),
                                !.stopped = @ \/ n.value = <<>>]>>]
           /\ call' = [op |-> "__next__", iterator |-> k, ret |-> n.value,
                       depth |-> __next___depth(held.iterator),
                       after_stop |-> held.stopped]
    /\ events' = <<>>
    /\ UNCHANGED <<_visible_rows, _transforms, _data, selections, selection_mode,
                   _cell_change_handlers, _index_name, _dataframe_reference, ncalls>>

InitIter == \E dataframe \in IterFrames, mode \in IterModes : Constructed(dataframe, mode)

NextIter ==
    \/ \E column1 \in Coords : select(0, column1, <<1>>, <<1>>, "none")
    \/ clear_selection
    \/ \E k \in Iterators : iter(k)
    \/ \E k \in Iterators : next(k)

\* Two traversals advanced step by step while regions are selected and
\* cleared.
SpecIter == InitIter /\ [][NextIter]_vars

-----------------------------------------------------------------------------
(* Properties of traversals held by the caller.                            *)

\* The cells a traversal of the rectangles yields: rectangle by rectangle,
\* the cells of each in row-major order, without those of the rectangles
\* before it.
RECURSIVE CellsInOrder(_, _)
CellsInOrder(rects, seen) ==
    IF rects = <<>> THEN <<>>
    ELSE RowMajor(CellsOf(Head(rects)) \ seen)
         \o CellsInOrder(Tail(rects), seen \cup CellsOf(Head(rects)))

\* The effective rectangles of the selection list and mode that the grid
\* had when the traversal was made.
RegionsAtCreation(held) ==
    [i \in DOMAIN held.selections |->
        EffectiveRect(_data, held.selection_mode, held.selections[i])]

\* The sequence s is the beginning of the sequence t.
IsPrefix(s, t) == Len(s) <= Len(t) /\ s = SubSeq(t, 1, Len(s))

\* C25: a traversal starts before the first cell with its own position;
\* making or advancing one traversal changes neither another traversal
\* nor the stored regions; and two traversals made from the same selection
\* list and mode yield the same sequence, each as far as it was advanced.
C25_TraversalsIndependent ==
    [][/\ call'.op \in {"__iter__", "__next__"}
          => /\ selections' = selections
             /\ selection_mode' = selection_mode
             /\ \A k \in Iterators \ {call'.iterator} : iterators'[k] = iterators[k]
       /\ call'.op = "__iter__"
          => LET held == iterators'[call'.iterator][1]
             IN  /\ held.iterator._rect_index = 0
                 /\ held.iterator._cell_index = 0
                 /\ held.yielded = <<>>
                 /\ ~held.stopped
       /\ \A j, k \in Iterators :
             (/\ iterators'[j] # <<>> /\ iterators'[k] # <<>>
              /\ iterators'[j][1].selections = iterators'[k][1].selections
              /\ iterators'[j][1].selection_mode = iterators'[k][1].selection_mode)
             => /\ \/ IsPrefix(iterators'[j][1].yielded, iterators'[k][1].yielded)
                   \/ IsPrefix(iterators'[k][1].yielded, iterators'[j][1].yielded)
                /\ (iterators'[j][1].stopped /\ iterators'[k][1].stopped)
                   => iterators'[j][1].yielded = iterators'[k][1].yielded]_vars

\* Two traversals of the same two regions, neither changed since: one has
\* been advanced to its end, the other has returned its first cell only.
C25_Witness ==
    /\ call.op = "__next__"
    /\ iterators[1] # <<>> /\ iterators[2] # <<>>
    /\ iterators[1][1].selections = selections
    /\ iterators[2][1].selections = selections
    /\ Len(selections) = 2
    /\ iterators[1][1].stopped
    /\ Len(iterators[1][1].yielded) > 1
    /\ Len(iterators[2][1].yielded) = 1
    /\ iterators[2][1].yielded[1] = iterators[1][1].yielded[1]

\* C26: an advance raises StopIteration exactly when every cell of the
\* traversal has been returned, so after as many advances as there are
\* cells; and once it has raised StopIteration every later advance raises
\* it again and returns no cell.
C26_TraversalEnds ==
    [][call'.op = "__next__"
          => LET before == iterators[call'.iterator][1]
                 after == iterators'[call'.iterator][1]
                 cells == CellsInOrder(RegionsAtCreation(before), {})
             IN  /\ call'.ret = <<>> <=> before.yielded = cells
                 /\ call'.ret # <<>> => after.yielded = Append(before.yielded, call'.ret[1])
                 /\ Len(after.yielded) <= Len(cells)
                 /\ before.stopped => /\ call'.ret = <<>>
                                      /\ after.yielded = before.yielded]_vars

\* A traversal of two regions has returned cells, raised StopIteration,
\* and raised it again on a later advance.
C26_Witness ==
    /\ call.op = "__next__"
    /\ call.after_stop
    /\ call.ret = <<>>
    /\ Len(iterators[call.iterator][1].selections) = 2
    /\ Len(iterators[call.iterator][1].yielded) > 2

\* C29: a traversal yields the cells of the regions stored when it was
\* made, in order, whatever select and clear_selection calls are made while
\* it is partly consumed; and a traversal made after such calls is over the
\* regions stored then.
C29_TraversalIsSnapshot ==
    /\ \A k \in Iterators :
          iterators[k] # <<>> =>
             LET held == iterators[k][1]
                 cells == CellsInOrder(RegionsAtCreation(held), {})
             IN  /\ IsPrefix(held.yielded, cells)
                 /\ held.stopped => held.yielded = cells
    /\ call.op = "__iter__" =>
          /\ iterators[call.iterator][1].selections = selections
          /\ iterators[call.iterator][1].iterator._selections = EffectiveRects

\* A traversal of two regions returned one cell, then the selection was
\* cleared, and the traversal has gone on to its end and returned the
\* other cells.
C29_Witness ==
    /\ call.op = "__next__"
    /\ selections = <<>>
    /\ Len(iterators[call.iterator][1].selections) = 2
    /\ iterators[call.iterator][1].stopped
    /\ Len(iterators[call.iterator][1].yielded) > 2
    /\ \E k \in Iterators \ {call.iterator} :
          /\ iterators[k] # <<>>
          /\ iterators[k][1].selections = <<>>
          /\ iterators[k][1].stopped

\* The number of positions of a rectangle.
Area(rect) == (rect.r2 - rect.r1 + 1) * (rect.c2 - rect.c1 + 1)

\* The cell at a position of a rectangle, in row-major order.
CellAt(rect, p) ==
    [r |-> rect.r1 + (p \div (rect.c2 - rect.c1 + 1)),
     c |-> rect.c1 + (p % (rect.c2 - rect.c1 + 1))]

\* The cells, as <<rectangle ordinal, position>>, that an advance from the
\* iterator state it0 to the iterator state it1 went over.
WentOver(it0, it1) ==
    UNION {{<<j, p>> : p \in (IF j = it0._rect_index THEN it0._cell_index ELSE 0)
                             .. (IF j = it1._rect_index THEN it1._cell_index
                                 ELSE Area(it0._selections[j + 1])) - 1} :
           j \in it0._rect_index .. Min(it1._rect_index, Len(it0._selections) - 1)}

\* Those of them that lie in a rectangle before their own.
SkippedCells(it0, it1) ==
    {jp \in WentOver(it0, it1) :
        \E i \in 1 .. jp[1] :
            CellAt(it0._selections[jp[1] + 1], jp[2]) \in CellsOf(it0._selections[i])}

\* C30: the nesting depth of one advance is 1, plus the number of cells it
\* skipped because an earlier rectangle contains them, plus the number of
\* rectangles it exhausted; an advance that goes over a rectangle of n
\* cells that earlier rectangles cover has depth n + 1 at least.
C30_DepthOfAdvance ==
    [][call'.op = "__next__"
          => LET it0 == iterators[call'.iterator][1].iterator
                 it1 == iterators'[call'.iterator][1].iterator
             IN  /\ call'.depth = 1 + Cardinality(SkippedCells(it0, it1))
                                    + (it1._rect_index - it0._rect_index)
                 /\ \A j \in it0._rect_index + 1 .. it1._rect_index - 1 :
                       (\A p \in 0 .. Area(it0._selections[j + 1]) - 1 :
                           <<j, p>> \in SkippedCells(it0, it1))
                       => call'.depth >= Area(it0._selections[j + 1]) + 1]_vars

\* An advance from the last cell of a four-cell region over a two-cell
\* region inside it raised StopIteration at depth five.
C30_Witness ==
    /\ call.op = "__next__"
    /\ ~call.after_stop
    /\ call.ret = <<>>
    /\ iterators[call.iterator][1].iterator._selections =
           <<[r1 |-> 0, c1 |-> 0, r2 |-> 1, c2 |-> 1],
             [r1 |-> 0, c1 |-> 1, r2 |-> 1, c2 |-> 1]>>
    /\ call.depth = 5

-----------------------------------------------------------------------------
(* DataGrid: cell-changed messages from the view, and set_row_value.       *)

\* What pandas puts in the cells of a row it adds that were not assigned.
NaN == -999

\* self._data["data"].loc[row, column] = value for a column the frame has:
\* a row label the frame has not is added to it (setting with
\* enlargement), with NaN in the other columns.  The row labels are the
\* ordinals, and the label added is the next ordinal.
loc_set_enlarging(data, row, column, value) ==
    IF row < Len(data.data.rows) THEN loc_set(data, row, column, value)
    ELSE [data EXCEPT !.data.rows =
             Append(@, [f \in Range(data.data.columns) |->
                           IF f = column THEN value ELSE NaN])]

\* The call of one cell-change callback with the content of the message.
MsgCallback(callback, row, column, column_index, value) ==
    [kind |-> "callback", callback |-> callback,
     content |-> [row |-> row, column |-> column,
                  column_index |-> <<column_index>>, value |-> value]]

\* DataGrid.__handle_custom_msg for a cell-changed message whose
\* column_index resolves to a column: [data, events, ret].  The column is
\* looked up, the cell is written, and the callbacks are called with the
\* row, the column, the column_index of the message and the value; nothing
\* is sent to the view.
cell_changed_result(data, callbacks, row, column_index, value) ==
    LET column == _column_index_to_name(data, column_index)
        data1 == loc_set_enlarging(data, row, column.value[1], value)
    IN  IF column.error # "" THEN [data |-> data, events |-> <<>>, ret |-> column.error]
        ELSE [data |-> data1,
              events |-> <<Written(row, column.value[1], value)>>
                         \o [i \in DOMAIN callbacks |->
                                MsgCallback(callbacks[i], row, column.value[1],
                                            column_index, value)],
              ret |-> "None"]

\* The view sends {event_type: "cell-changed", row, column_index, value}.
cell_changed(row, column_index, value) ==
    LET res == cell_changed_result(_data, _cell_change_handlers, row, column_index, value)
    IN  /\ ncalls < MaxWrites
        /\ ncalls' = ncalls + 1
        /\ _data' = res.data
        /\ events' = res.events
        /\ call' = [op |-> "cell-changed", row |-> row, column_index |-> column_index,
                    value |-> value, ret |-> res.ret]
        /\ UNCHANGED <<iterators, _visible_rows, _transforms, selections, selection_mode,
                       _cell_change_handlers, _index_name, _dataframe_reference>>

\* The row-changed message sent to the view.
RowChanged(row, value) ==
    [kind |-> "send", event_type |-> "row-changed",
     content |-> [row |-> row, value |-> value]]

\* The while loop of set_row_value over the data columns of one row, from
\* column_index on: [data, events, error].  new_value[column_index] is a
\* list subscript and raises IndexError past the end of new_value.
RECURSIVE set_row_value_columns(_, _, _, _)
set_row_value_columns(st, row_index, new_value, column_index) ==
    LET column == _column_index_to_name(st.data, column_index)
        item == list_item(new_value, column_index)
    IN  IF column.value = <<>> THEN st
        ELSE IF item.error # "" THEN [st EXCEPT !.error = item.error]
        ELSE set_row_value_columns(
                 [st EXCEPT !.data = loc_set(@, row_index, column.value[1], item.value[1]),
                            !.events = Append(@, Written(row_index, column.value[1],
                                                         item.value[1]))],
                 row_index, new_value, column_index + 1)

\* The for loop of set_row_value over row_indices: it ends at the first
\* row whose columns raise.
RECURSIVE set_row_value_loop(_, _, _)
set_row_value_loop(st, row_indices, new_value) ==
    IF row_indices = <<>> THEN st
    ELSE LET st1 == set_row_value_columns(st, Head(row_indices), new_value, 0)
         IN  IF st1.error # "" THEN st1
             ELSE set_row_value_loop(
                      [st1 EXCEPT !.events = Append(@, RowChanged(Head(row_indices),
                                                                  new_value))],
                      Tail(row_indices), new_value)

\* DataGrid.set_row_value(primary_key_value, new_value): [data, events, ret].
set_row_value_result(data, primary_key_value, new_value) ==
    LET found == _get_row_index_of_primary_key(data, primary_key_value)
        st == set_row_value_loop([data |-> data, events |-> <<>>, error |-> ""],
                                 found.rows, new_value)
    IN  IF found.error THEN [data |-> data, events |-> <<>>, ret |-> "ValueError"]
        ELSE IF found.rows = <<>> THEN [data |-> data, events |-> <<>>, ret |-> "False"]
        ELSE [data |-> st.data, events |-> st.events,
              ret |-> IF st.error # "" THEN st.error ELSE "True"]

set_row_value(primary_key_value, new_value) ==
    LET res == set_row_value_result(_data, primary_key_value, new_value)
    IN  /\ ncalls < MaxWrites
        /\ ncalls' = ncalls + 1
        /\ _data' = res.data
        /\ events' = res.events
        /\ call' = [op |-> "set_row_value", primary_key_value |-> primary_key_value,
                    new_value |-> new_value, ret |-> res.ret]
        /\ UNCHANGED <<iterators, _visible_rows, _transforms, selections, selection_mode,
                       _cell_change_handlers, _index_name, _dataframe_reference>>

\* The column_index of the messages: the data columns, the data columns
\* counted from the end, and one below them.  A column_index at or past the
\* number of data columns resolves to the column None and is not given.
MsgColumnIndices == -3 .. 1

\* The rows given to set_row_value: one value per data column, and one
\* value short.
NewRows == {<<7, 8>>, <<7>>}

InitMsg == \E dataframe \in DataFrames : Constructed(dataframe, "none")

\* The row of the messages: a row of the three-row frames loaded, or the
\* next ordinal; a label further out would leave the row labels with a gap.
MsgRows == 0 .. 3

NextMsg ==
    \/ \E row \in MsgRows, column_index \in MsgColumnIndices,
          value \in NewValues :
          cell_changed(row, column_index, value)
    \/ \E primary_key_value \in PrimaryKeys, new_value \in NewRows :
          set_row_value(primary_key_value, new_value)
    \/ \E column_name \in {"A", "Z"}, row_index \in RowIndices :
          set_cell_value_by_index(column_name, row_index, 7)
    \/ \E callback \in Callbacks : on_cell_change(callback, FALSE)

\* Cell edits from the view and from the setters on a loaded dataset.
SpecMsg == InitMsg /\ [][NextMsg]_vars

-----------------------------------------------------------------------------
(* Properties of cell edits from the view.                                 *)

\* The events that are no message to the view: the writes and the calls
\* of the callbacks.
Local(evs) == SelectSeq(evs, LAMBDA e : e.kind # "send")

\* C22: a cell-changed message {row, column_index, value} whose
\* column_index resolves to a column leaves the data as the setter
\* set_cell_value_by_index would with that column, row and value, and
\* writes and calls the callbacks as the setter would, with the same
\* content.
C22_MessageAsSetter ==
    [][(/\ call'.op = "cell-changed"
        /\ _column_index_to_name(_data, call'.column_index).error = ""
        /\ _column_index_to_name(_data, call'.column_index).value # <<>>)
          => LET column == _column_index_to_name(_data, call'.column_index).value[1]
                 setter == set_cell_value_by_index_result(
                               _data, _cell_change_handlers, column,
                               call'.row, call'.value)
             IN  /\ _data' = setter.data
                 /\ Local(events') = Local(setter.events)]_vars

\* C28: no setter call and no cell-changed message changes the number of
\* rows, the columns or the schema of the data object, and every row has
\* one value per column.
C28_ShapeKept ==
    [][call'.op \in {"cell-changed", "set_row_value", "set_cell_value_by_index"}
          => /\ Len(_data'.data.rows) = Len(_data.data.rows)
             /\ _data'.data.columns = _data.data.columns
             /\ _data'.schema = _data.schema
             /\ \A i \in DOMAIN _data'.data.rows :
                   DOMAIN _data'.data.rows[i] = Range(_data.schema.fields)]_vars

-----------------------------------------------------------------------------
(* DataGrid: the values of the selected cells, read from the data as the   *)
(* view shows it.                                                          *)

\* DataGrid.get_visible_data: [error, value].  The rows are those of
\* _visible_rows, in that order, when the view has reported any, and all
\* the rows otherwise; the primary key becomes the index and its last
\* level, the guid, is dropped; the index and the columns get the names
\* remembered from the frame that was loaded.
get_visible_data(data, visible_rows, reference) ==
    LET shown == IF visible_rows # <<>> THEN visible_rows
                 ELSE [i \in DOMAIN data.data.rows |-> i - 1]
        at == data.schema.primaryKey
        columns == SelectSeq(data.data.columns, LAMBDA c : c \notin Range(at))
    IN  IF Len(columns) # Len(reference.columns) THEN Raised("ValueError")
        ELSE Returned(
               [index_name |-> reference.index_names[1],
                index |-> [i \in DOMAIN shown |-> data.data.rows[shown[i] + 1][at[1]]],
                columns |-> reference.columns,
                values |-> [i \in DOMAIN shown |->
                               [j \in DOMAIN columns |->
                                   data.data.rows[shown[i] + 1][columns[j]]]]])

\* SelectionHelper.all_values: [error, value], the values of the cells of
\* the traversal, or the first exception a lookup raises.
all_values(data, sels, mode) ==
    LET cells == all(data, sels, mode)
        values == [i \in DOMAIN cells |->
                      _get_cell_value_by_numerical_index(data, cells[i].c, cells[i].r)]
        raising == {i \in DOMAIN values : values[i].error # ""}
    IN  IF raising # {}
        THEN Raised(values[CHOOSE i \in raising : \A j \in raising : i <= j].error)
        ELSE Returned([i \in DOMAIN values |-> values[i].value])

\* DataGrid.selected_cell_values: all_values of the helper that
\* selected_visible_cell_iterator makes over a data object generated from
\* the visible data.
selected_cell_values_result(data, visible_rows, reference, index_name, sels, mode) ==
    LET view_data == get_visible_data(data, visible_rows, reference)
        index_key == get_dataframe_index(index_name, view_data.value)
        view_data_object == generate_data_object(view_data.value, "ipydguuid", index_key)
    IN  IF view_data.error # "" THEN view_data
        ELSE all_values(view_data_object, sels, mode)

\* grid.selected_cell_values
selected_cell_values ==
    /\ call' = [op |-> "selected_cell_values",
                ret |-> selected_cell_values_result(_data, _visible_rows,
                            _dataframe_reference, _index_name, selections,
                            selection_mode)]
    /\ events' = <<>>
    /\ UNCHANGED <<iterators, _visible_rows, _transforms, _data, selections,
                   selection_mode, _cell_change_handlers, _index_name,
                   _dataframe_reference, ncalls>>

\* The view reports the rows it shows: grid._visible_rows = value.
set_visible_rows(value) ==
    /\ _visible_rows' = value
    /\ call' = [op |-> "set_visible_rows", value |-> value]
    /\ events' = <<>>
    /\ UNCHANGED <<iterators, _transforms, _data, selections, selection_mode,
                   _cell_change_handlers, _index_name, _dataframe_reference, ncalls>>

\* The datasets whose selected values are read: three rows and two
\* columns, one row and one column.
ValueFrames == {ExampleFrame, KeyColumnFrame}

\* What the view reports: nothing yet (or every row hidden), and the first
\* row alone.
VisibleRowLists == {<<>>, <<0>>}

InitValues ==
    \E dataframe \in ValueFrames, mode \in IterModes \cup {"column"} :
        Constructed(dataframe, mode)

NextValues ==
    \/ \E row1 \in Coords, column1 \in Coords, clear_mode \in {"none", "all"} :
          select(row1, column1, <<1>>, <<1>>, clear_mode)
    \/ \E value \in VisibleRowLists : set_visible_rows(value)
    \/ selected_cell_values

\* Reading the values of the selected cells while the view filters rows.
SpecValues == InitValues /\ [][NextValues]_vars

-----------------------------------------------------------------------------
(* Properties of the values of the selected cells.                         *)

\* C21: selected_cell_values has one value for each cell of selected_cells,
\* in the same order: the value the data holds at the cell's row in the
\* data column at the cell's column, and None for a cell outside the data.
C21_ValuesOfSelectedCells ==
    call.op = "selected_cell_values" =>
        LET cells == all(_data, selections, selection_mode)
        IN  /\ call.ret.error = ""
            /\ Len(call.ret.value) = Len(cells)
            /\ \A i \in DOMAIN cells :
                  call.ret.value[i] =
                     IF InRange(_data, cells[i])
                     THEN <<_data.data.rows[cells[i].r + 1]
                                [DataColumns(_data)[cells[i].c + 1]]>>
                     ELSE <<>>

====
